---- MODULE Spec2Model ----
(***************************************************************************)
(* A model of circles.py: the Circle record, the gravitation-and-glue      *)
(* step, break_circles, unglue, the layout generators and the loop of      *)
(* main.                                                                   *)
(*                                                                         *)
(* Numbers.  The program computes in Python floats.  Here every position,  *)
(* velocity and distance is a fixed-point number with a resolution of one  *)
(* unit (an integer); a float division is the quotient truncated toward    *)
(* zero, and distance = math.hypot(dx, dy) is the integer square root of   *)
(* dx*dx + dy*dy.  With integer radii the comparison                       *)
(* distance < radius_i + radius_j has exactly the value it has on the      *)
(* reals.  A division by a zero distance raises ZeroDivisionError, as a    *)
(* Python float division does.                                             *)
(***************************************************************************)
EXTENDS Integers, Sequences, FiniteSets, TLC

VARIABLES
    circles,      \* the list of Circle objects
    fault,        \* "none", or the exception that ended the program
    last,         \* the most recent call: its name, arguments and the list before it
    calls,        \* number of engine calls made so far
    circle_tick,  \* main: circle_tick
    gravity,      \* main: gravity (index into gravities)
    ticks,        \* main: number of iterations of the while loop so far
    inserted,     \* main: the iterations in which place_boundary_circle ran
    toggles,      \* main: number of K_SPACE events handled so far
    running       \* main: the loop is still running

vars == <<circles, fault, last, calls, circle_tick, gravity, ticks, inserted, toggles, running>>

driverVars == <<circle_tick, gravity, ticks, inserted, toggles, running>>

(***************************************************************************)
(* Bounds of the model.                                                    *)
(***************************************************************************)
MaxSite == 2      \* initial positions are drawn from Site(0) .. Site(MaxSite)
MaxBodies == 3    \* most circles in an initial list of the engine runs
MaxCalls == 2     \* most engine calls in one run
GMag == 4         \* the engine runs call gravitate_glue with g_constant in {-GMag, GMag}
BreakMag == 4     \* the engine runs call break_circles with break_constant BreakMag
MaxSpread == 4    \* widest range of random.randint that is drawn from in full
MaxNumber == 2    \* the layout runs call distribute_circles with number in 0..MaxNumber
MaxRadius == 2    \* ... with 1 <= radius_min <= radius_max <= MaxRadius
MaxBound == 4     \* ... with x_bound and y_bound in 1..MaxBound
MaxTicks == 201   \* most iterations of the loop of main in one run
MaxEvents == 2    \* most events pygame.event.get() returns in one iteration
MaxToggles == 3   \* most K_SPACE events in one run

Radii == {1, 2}

(***************************************************************************)
(* Arithmetic.                                                             *)
(***************************************************************************)
Abs(a) == IF a < 0 THEN -a ELSE a

Min(a, b) == IF a < b THEN a ELSE b

\* a / b on floats, b > 0, truncated toward zero to the model's resolution
Div(a, b) == IF a >= 0 THEN a \div b ELSE -((-a) \div b)

RECURSIVE SqrtSearch(_, _, _)
SqrtSearch(s, lo, hi) ==
    IF lo >= hi THEN lo
    ELSE LET mid == (lo + hi + 1) \div 2
         IN  IF mid * mid <= s THEN SqrtSearch(s, mid, hi) ELSE SqrtSearch(s, lo, mid - 1)

\* math.hypot(dx, dy)
hypot(dx, dy) == SqrtSearch(dx * dx + dy * dy, 0, Abs(dx) + Abs(dy))

(***************************************************************************)
(* class Circle                                                            *)
(***************************************************************************)
Circle(position, radius) ==
    [position |-> position, radius |-> radius, velocity |-> <<0, 0>>, glued |-> FALSE]

\* the state of a running engine call: the list, and the exception raised if any
Running(cs) == [cs |-> cs, fault |-> "none"]

Raise(S, exc) == [S EXCEPT !.fault = exc]

(***************************************************************************)
(* gravitate_glue(circles, g_constant)                                     *)
(***************************************************************************)
\* gg_move without the test of line 34: a glued circle keeps moving
gg_move_ignoring_glue(cs, i, g) ==
    [cs EXCEPT ![i].position = <<cs[i].position[1] + cs[i].velocity[1],
                                 cs[i].position[2] + cs[i].velocity[2]>>]

\* lines 34-36: circle i moves by its velocity unless it is glued and g_constant >= 0
gg_move(cs, i, g) ==
    IF g < 0 \/ ~cs[i].glued
    THEN [cs EXCEPT ![i].position = <<cs[i].position[1] + cs[i].velocity[1],
                                      cs[i].position[2] + cs[i].velocity[2]>>]
    ELSE cs

\* the collision test with <= for <: circles that touch exactly collide too
CollidingOrTouching(cs, i, j) ==
    hypot(cs[i].position[1] - cs[j].position[1], cs[i].position[2] - cs[j].position[2])
        <= cs[i].radius + cs[j].radius

\* line 41: the collision test of a pair
Colliding(cs, i, j) ==
    hypot(cs[i].position[1] - cs[j].position[1], cs[i].position[2] - cs[j].position[2])
        < cs[i].radius + cs[j].radius

\* gg_pair with the force subtracted from both circles (lines 48-49 as -=)
gg_pair_same_sign(S, i, j, g) ==
    LET cs == S.cs
        dx == cs[i].position[1] - cs[j].position[1]
        dy == cs[i].position[2] - cs[j].position[2]
        distance == hypot(dx, dy)
    IN  IF Colliding(cs, i, j)
        THEN [S EXCEPT !.cs = [cs EXCEPT ![i].glued = TRUE, ![j].glued = TRUE]]
        ELSE IF distance = 0
        THEN Raise(S, "ZeroDivisionError")
        ELSE LET force == Div(Div(g, distance), distance)
                 fx == Div(force * dx, distance)
                 fy == Div(force * dy, distance)
             IN  [S EXCEPT !.cs = [cs EXCEPT
                     ![i].velocity = <<cs[i].velocity[1] - fx, cs[i].velocity[2] - fy>>,
                     ![j].velocity = <<cs[j].velocity[1] - fx, cs[j].velocity[2] - fy>>]]

\* lines 38-49: one pair (i, j), i < j
gg_pair(S, i, j, g) ==
    LET cs == S.cs
        dx == cs[i].position[1] - cs[j].position[1]
        dy == cs[i].position[2] - cs[j].position[2]
        distance == hypot(dx, dy)
    IN  IF Colliding(cs, i, j)
        THEN [S EXCEPT !.cs = [cs EXCEPT ![i].glued = TRUE, ![j].glued = TRUE]]
        ELSE IF distance = 0
        THEN Raise(S, "ZeroDivisionError")
        ELSE LET force == Div(Div(g, distance), distance)
                 fx == Div(force * dx, distance)
                 fy == Div(force * dy, distance)
             IN  [S EXCEPT !.cs = [cs EXCEPT
                     ![i].velocity = <<cs[i].velocity[1] - fx, cs[i].velocity[2] - fy>>,
                     ![j].velocity = <<cs[j].velocity[1] + fx, cs[j].velocity[2] + fy>>]]

\* the order in which the two nested loops (lines 33, 37) run their bodies:
\* for each i, the move of i and then the pairs (i, i+1) .. (i, n)
RECURSIVE PairsOf(_, _, _)
PairsOf(i, j, n) == IF j > n THEN <<>> ELSE <<<<"pair", i, j>>>> \o PairsOf(i, j + 1, n)

RECURSIVE gg_schedule(_, _)
gg_schedule(i, n) ==
    IF i > n THEN <<>> ELSE <<<<"move", i, i>>>> \o PairsOf(i, i + 1, n) \o gg_schedule(i + 1, n)

gg_apply(S, op, g) ==
    IF S.fault # "none" THEN S
    ELSE IF op[1] = "move" THEN [S EXCEPT !.cs = gg_move(S.cs, op[2], g)]
    ELSE gg_pair(S, op[2], op[3], g)

RECURSIVE gg_run(_, _, _)
gg_run(S, ops, g) ==
    IF ops = <<>> THEN S ELSE gg_run(gg_apply(S, Head(ops), g), Tail(ops), g)

gravitate_glue(cs, g) == gg_run(Running(cs), gg_schedule(1, Len(cs)), g)

(***************************************************************************)
(* break_circles(circles, break_constant, time_skip)                       *)
(***************************************************************************)
TimeSkipDefault == 10

\* lines 114-116: a glued circle i is unglued and its velocity reset
bc_reset(cs, i) ==
    IF cs[i].glued THEN [cs EXCEPT ![i].glued = FALSE, ![i].velocity = <<0, 0>>] ELSE cs

\* lines 118-125: one pair (i, j), i < j; the velocities are assigned, not accumulated
bc_pair(S, i, j, bc) ==
    LET cs == S.cs
        dx == cs[i].position[1] - cs[j].position[1]
        dy == cs[i].position[2] - cs[j].position[2]
        distance == hypot(dx, dy)
    IN  IF distance = 0
        THEN Raise(S, "ZeroDivisionError")
        ELSE LET force == Div(Div(-bc, distance), distance)
             IN  [S EXCEPT !.cs = [cs EXCEPT
                     ![i].velocity = <<Div(force * dx, distance), Div(force * dy, distance)>>,
                     ![j].velocity = <<Div((-force) * dx, distance), Div((-force) * dy, distance)>>]]

\* lines 127-128: circle k jumps by time_skip times its velocity
bc_jump(cs, k, ts) ==
    [cs EXCEPT ![k].position = <<cs[k].position[1] + ts * cs[k].velocity[1],
                                 cs[k].position[2] + ts * cs[k].velocity[2]>>]

\* the order of the loops of lines 113, 117 and 126
RECURSIVE bc_pairs_schedule(_, _)
bc_pairs_schedule(i, n) ==
    IF i > n THEN <<>>
    ELSE <<<<"reset", i, i>>>> \o PairsOf(i, i + 1, n) \o bc_pairs_schedule(i + 1, n)

bc_schedule(n) == bc_pairs_schedule(1, n) \o [k \in 1..n |-> <<"jump", k, k>>]

bc_apply(S, op, bc, ts) ==
    IF S.fault # "none" THEN S
    ELSE IF op[1] = "reset" THEN [S EXCEPT !.cs = bc_reset(S.cs, op[2])]
    ELSE IF op[1] = "pair" THEN bc_pair(S, op[2], op[3], bc)
    ELSE [S EXCEPT !.cs = bc_jump(S.cs, op[2], ts)]

RECURSIVE bc_run(_, _, _, _)
bc_run(S, ops, bc, ts) ==
    IF ops = <<>> THEN S ELSE bc_run(bc_apply(S, Head(ops), bc, ts), Tail(ops), bc, ts)

break_circles(cs, bc, ts) == bc_run(Running(cs), bc_schedule(Len(cs)), bc, ts)

(***************************************************************************)
(* unglue(circles)                                                         *)
(***************************************************************************)
\* unglue_one without the test of line 136: every velocity is reset
unglue_one_unconditional(c) == [c EXCEPT !.glued = FALSE, !.velocity = <<0, 0>>]

\* lines 136-138
unglue_one(c) == IF c.glued THEN [c EXCEPT !.glued = FALSE, !.velocity = <<0, 0>>] ELSE c

unglue(cs) == [k \in 1..Len(cs) |-> unglue_one(cs[k])]

(***************************************************************************)
(* The random module.  random.randint(lo, hi) draws any integer of         *)
(* lo..hi; of a range wider than MaxSpread only the low end is drawn.      *)
(***************************************************************************)
randint(lo, hi) == IF hi - lo <= MaxSpread THEN lo..hi ELSE {lo}

\* random.shuffle(seq): every order of the list
shuffle(seq) == {[k \in 1..Len(seq) |-> seq[p[k]]] : p \in Permutations(1..Len(seq))}

(***************************************************************************)
(* distribute_circles(number, radius_min, radius_max, x_bound, y_bound)    *)
(* The arguments are ints and / is the integer division the range() calls  *)
(* of lines 62-63 need.                                                    *)
(***************************************************************************)
\* bound_box with the boxes side by side, without the empty box between two of them
bound_box_adjacent(i, j, radius_max) ==
    <<i * radius_max * 2, (i + 1) * radius_max * 2,
      j * radius_max * 2, (j + 1) * radius_max * 2>>

\* line 64: the box of column i and row j, as (x_low, x_high, y_low, y_high)
bound_box(i, j, radius_max) ==
    <<2 * i * radius_max * 2, (2 * i + 1) * radius_max * 2,
      2 * j * radius_max * 2, (2 * j + 1) * radius_max * 2>>

\* lines 61-64: the boxes in the order of the two loops
bound_boxes(radius_max, x_bound, y_bound) ==
    LET nx == (x_bound \div radius_max) \div 2
        ny == (y_bound \div radius_max) \div 2
    IN  [k \in 1..(nx * ny) |-> bound_box((k - 1) \div ny, (k - 1) % ny, radius_max)]

\* lines 70-71: the circles that can be drawn in one box
circle_in(box, radius_min, radius_max) ==
    {Circle(<<x, y>>, r) : x \in randint(box[1], box[2]), y \in randint(box[3], box[4]),
                           r \in randint(radius_min, radius_max)}

\* lines 67-71: the lists that can be drawn in boxes[k], .., boxes[m]
RECURSIVE fill(_, _, _, _, _)
fill(boxes, k, m, radius_min, radius_max) ==
    IF k > m THEN {<<>>}
    ELSE {<<c>> \o rest : c \in circle_in(boxes[k], radius_min, radius_max),
                          rest \in fill(boxes, k + 1, m, radius_min, radius_max)}

\* the lists distribute_circles can return
distribute_circles(number, radius_min, radius_max, x_bound, y_bound) ==
    UNION {fill(boxes, 1, Min(number, Len(boxes)), radius_min, radius_max) :
              boxes \in shuffle(bound_boxes(radius_max, x_bound, y_bound))}

(***************************************************************************)
(* place_boundary_circle: the circles it can append                        *)
(***************************************************************************)
place_boundary_circle(x_bound, y_bound, x_margin, y_margin, min_radius, max_radius) ==
    {Circle(<<x, y>>, r) :
        x \in randint(0, x_bound),
        y \in randint(0, y_margin) \cup randint(y_bound - y_margin, y_bound),
        r \in randint(min_radius, max_radius)}
    \cup
    {Circle(<<x, y>>, r) :
        x \in randint(0, x_margin) \cup randint(x_bound - x_margin, x_bound),
        y \in randint(0, y_bound),
        r \in randint(min_radius, max_radius)}

(***************************************************************************)
(* The engine runs: any list of at most MaxBodies freshly constructed      *)
(* circles, then at most MaxCalls calls of the engine's operations.        *)
(***************************************************************************)
Site(k) == <<2 * (k % 2), 2 * (k \div 2)>>

Sites == {Site(k) : k \in 0..MaxSite}

NewCircles == {Circle(p, r) : p \in Sites, r \in Radii}

Lists(n) == [1..n -> NewCircles]

NoCall == [op |-> "none", arg |-> <<>>, pre |-> <<>>]

DriverIdle ==
    /\ circle_tick = 0
    /\ gravity = 0
    /\ ticks = 0
    /\ inserted = <<>>
    /\ toggles = 0
    /\ running = FALSE

InitEngine ==
    /\ \E n \in 0..MaxBodies : circles \in Lists(n)
    /\ fault = "none"
    /\ last = NoCall
    /\ calls = 0
    /\ DriverIdle

CanCall == fault = "none" /\ calls < MaxCalls

Finish(S, op, arg) ==
    /\ circles' = S.cs
    /\ fault' = S.fault
    /\ last' = [op |-> op, arg |-> arg, pre |-> circles]
    /\ calls' = calls + 1
    /\ UNCHANGED driverVars

GravitateGlue ==
    /\ CanCall
    /\ \E g \in {-GMag, GMag} : Finish(gravitate_glue(circles, g), "gravitate_glue", <<g>>)

Unglue ==
    /\ CanCall
    /\ Finish(Running(unglue(circles)), "unglue", <<>>)

BreakCircles ==
    /\ CanCall
    /\ Finish(break_circles(circles, BreakMag, TimeSkipDefault), "break_circles",
              <<BreakMag, TimeSkipDefault>>)

NextEngine == GravitateGlue \/ BreakCircles \/ Unglue

SpecEngine == InitEngine /\ [][NextEngine]_vars

(***************************************************************************)
(* The layout runs: one call of distribute_circles.                        *)
(***************************************************************************)
InitLayout ==
    /\ circles = <<>>
    /\ fault = "none"
    /\ last = NoCall
    /\ calls = 0
    /\ DriverIdle

DistributeCircles ==
    /\ calls = 0
    /\ \E number \in 0..MaxNumber, radius_max \in 1..MaxRadius, x_bound \in 1..MaxBound,
          y_bound \in 1..MaxBound :
       \E radius_min \in 1..radius_max :
          /\ circles' \in distribute_circles(number, radius_min, radius_max, x_bound, y_bound)
          /\ last' = [op |-> "distribute_circles",
                      arg |-> <<number, radius_min, radius_max, x_bound, y_bound>>,
                      pre |-> <<>>]
    /\ calls' = calls + 1
    /\ UNCHANGED <<fault, driverVars>>

NextLayout == DistributeCircles

SpecLayout == InitLayout /\ [][NextLayout]_vars

(***************************************************************************)
(* create_center_star(x_bound, y_bound, center_radius, outer_radius, sides)*)
(***************************************************************************)
\* 1000 * math.sin(i * 2 * math.pi / 5) and 1000 * math.cos(i * 2 * math.pi / 5),
\* i = 0..4, rounded; the model has the star of five sides that main builds
Sin1000(i) == <<0, 951, 588, -588, -951>>[i + 1]

Cos1000(i) == <<1000, 309, -809, -809, 309>>[i + 1]

create_center_star(x_bound, y_bound, center_radius, outer_radius, sides) ==
    <<Circle(<<x_bound \div 2, y_bound \div 2>>, center_radius)>>
    \o [k \in 1..sides |->
          Circle(<<x_bound \div 2 + Div(Sin1000(k - 1) * (center_radius + outer_radius), 1000),
                   y_bound \div 2 + Div(Cos1000(k - 1) * (center_radius + outer_radius), 1000)>>,
                 outer_radius)]

(***************************************************************************)
(* main                                                                    *)
(***************************************************************************)
\* line 172 calls gravitate, which circles.py does not define: it is the step of the
\* engine, which this file defines under the name gravitate_glue
gravitate(cs, g) == gravitate_glue(cs, g)

gravities == <<100, -1>>

\* handle_event without the call of unglue of line 184
handle_event_without_unglue(H, event) ==
    IF H.quit THEN H
    ELSE IF event = "QUIT" THEN [H EXCEPT !.quit = TRUE]
    ELSE IF event = "K_SPACE"
    THEN [H EXCEPT !.gravity = (H.gravity + 1) % Len(gravities), !.spaces = H.spaces + 1]
    ELSE H

\* lines 178-185: the events of one iteration, in order; QUIT ends the for loop.
\* A state of the handling is the list, the index gravity, the number of K_SPACE events
\* handled and whether QUIT was met.
handle_event(H, event) ==
    IF H.quit THEN H
    ELSE IF event = "QUIT" THEN [H EXCEPT !.quit = TRUE]
    ELSE IF event = "K_SPACE"
    THEN [H EXCEPT !.cs = unglue(H.cs),
                   !.gravity = (H.gravity + 1) % Len(gravities),
                   !.spaces = H.spaces + 1]
    ELSE H

RECURSIVE handle_events(_, _)
handle_events(H, events) ==
    IF events = <<>> THEN H ELSE handle_events(handle_event(H, Head(events)), Tail(events))

Events == {"QUIT", "K_SPACE", "OTHER"}

EventLists == UNION {[1..n -> Events] : n \in 0..MaxEvents}

Spaces(events) == Cardinality({k \in 1..Len(events) : events[k] = "K_SPACE"})

\* lines 148-161: the state on entry to the loop
InitDriver ==
    /\ circles = create_center_star(500, 400, 13, 7, 5)
    /\ circle_tick = 200
    /\ gravity = 0
    /\ running = TRUE
    /\ fault = "none"
    /\ last = NoCall
    /\ calls = 0
    /\ ticks = 0
    /\ inserted = <<>>
    /\ toggles = 0

\* lines 165-188: one iteration of the while loop
Tick ==
    /\ running
    /\ fault = "none"
    /\ ticks < MaxTicks
    /\ \E placed \in IF circle_tick + 1 >= 100
                     THEN {circles \o <<c>> : c \in place_boundary_circle(500, 400, 125, 100, 7, 13)}
                     ELSE {circles} :
       \E S \in {gravitate(placed, gravities[gravity + 1])} :
       \E events \in EventLists :
       \E H \in {handle_events([cs |-> S.cs, gravity |-> gravity, spaces |-> 0, quit |-> FALSE],
                               events)} :
          /\ toggles + Spaces(events) <= MaxToggles
          /\ circle_tick' = IF circle_tick + 1 >= 100 THEN circle_tick + 1 - 100 ELSE circle_tick + 1
          /\ ticks' = ticks + 1
          /\ inserted' = IF circle_tick + 1 >= 100 THEN Append(inserted, ticks + 1) ELSE inserted
          /\ fault' = S.fault
          /\ last' = [op |-> "tick",
                      arg |-> <<gravities[gravity + 1], IF S.fault = "none" THEN H.spaces ELSE 0>>,
                      pre |-> S.cs]
          /\ IF S.fault # "none"
             THEN /\ circles' = S.cs
                  /\ UNCHANGED <<gravity, toggles>>
                  /\ running' = FALSE
             ELSE /\ circles' = H.cs
                  /\ gravity' = H.gravity
                  /\ toggles' = toggles + H.spaces
                  /\ running' = ~H.quit
    /\ UNCHANGED calls

NextDriver == Tick

SpecDriver == InitDriver /\ [][NextDriver]_vars

(***************************************************************************)
(* Properties of the engine.                                               *)
(***************************************************************************)
IsCall(op) == calls' = calls + 1 /\ last'.op = op

\* the lists at the start of gravitate_glue(cs, g) and after each of its loop bodies
RECURSIVE gg_lists(_, _, _)
gg_lists(S, ops, g) ==
    IF ops = <<>> THEN <<S.cs>> ELSE <<S.cs>> \o gg_lists(gg_apply(S, Head(ops), g), Tail(ops), g)

gg_trace(cs, g) == gg_lists(Running(cs), gg_schedule(1, Len(cs)), g)

SumV(cs, c) ==
    LET RECURSIVE Sum(_)
        Sum(k) == IF k = 0 THEN 0 ELSE cs[k].velocity[c] + Sum(k - 1)
    IN  Sum(Len(cs))

\* C1 (glue monotonicity): in a gravitate_glue call with a positive constant, a circle
\* that is glued at any moment of the call (before the first loop body or after any one)
\* is at the call's return where it was at that moment; and no gravitate_glue call clears a glued
\* flag, so this holds over any number of such calls until unglue or break_circles.
C1_Step ==
    IsCall("gravitate_glue") =>
        \A tr \in {gg_trace(circles, last'.arg[1])} :
            /\ \A k \in 1..Len(circles) : circles[k].glued => circles'[k].glued
            /\ last'.arg[1] > 0 =>
                 \A m \in 1..Len(tr) : \A k \in 1..Len(circles) :
                     tr[m][k].glued => circles'[k].position = tr[m][k].position

C1_GlueMonotone == [][C1_Step]_vars

\* a glued circle with a velocity stayed put through a positive-constant call in which
\* another circle became glued
C1_Witness ==
    /\ last.op = "gravitate_glue"
    /\ last.arg[1] > 0
    /\ \E k \in 1..Len(circles) :
          /\ last.pre[k].glued
          /\ last.pre[k].velocity # <<0, 0>>
          /\ circles[k].position = last.pre[k].position
    /\ \E k \in 1..Len(circles) : ~last.pre[k].glued /\ circles[k].glued

\* C2 (collision threshold), as claimed: when a gravitate_glue call returns, both circles
\* of every pair whose distance is then strictly less than the sum of their radii are glued.
C2_GluedAtReturn ==
    (last.op = "gravitate_glue" /\ fault = "none") =>
        \A i \in 1..Len(circles) : \A j \in (i + 1)..Len(circles) :
            Colliding(circles, i, j) => circles[i].glued /\ circles[j].glued

\* the square of the centre distance of circles i and j, and of the sum of their radii
Dist2(cs, i, j) ==
    (cs[i].position[1] - cs[j].position[1]) * (cs[i].position[1] - cs[j].position[1])
    + (cs[i].position[2] - cs[j].position[2]) * (cs[i].position[2] - cs[j].position[2])

Reach2(cs, i, j) == (cs[i].radius + cs[j].radius) * (cs[i].radius + cs[j].radius)

\* C2 (collision threshold), amended: a pair (i, j), i < j, is examined once in a
\* gravitate_glue call, with circle i already moved in this call and circle j not yet.
\* If its distance is then strictly less than the sum of the radii, both circles are glued
\* when the call returns; if it is equal or greater, examining the pair changes no flag.
C2_Step ==
    IsCall("gravitate_glue") =>
        \A tr \in {gg_trace(circles, last'.arg[1])} :
        \A ops \in {gg_schedule(1, Len(circles))} :
            \A m \in 1..Len(ops) :
                ops[m][1] = "pair" =>
                    LET i == ops[m][2]
                        j == ops[m][3]
                    IN  \A A \in {tr[m]} : \A B \in {tr[m + 1]} :
                        IF Dist2(A, i, j) < Reach2(A, i, j)
                        THEN circles'[i].glued /\ circles'[j].glued
                        ELSE \A k \in 1..Len(circles) : B[k].glued = A[k].glued

C2_GluedWhenExamined == [][C2_Step]_vars

\* a call from rest in which circles 1 and 2 were examined touching exactly and circle 2
\* stayed unglued, while another circle became glued
C2_Witness ==
    /\ last.op = "gravitate_glue"
    /\ Len(circles) >= 3
    /\ last.pre[1].velocity = <<0, 0>>
    /\ Dist2(last.pre, 1, 2) = Reach2(last.pre, 1, 2)
    /\ ~circles[2].glued
    /\ \E k \in 1..Len(circles) : ~last.pre[k].glued /\ circles[k].glued

\* C3 (symmetry of force): in a gravitate_glue call, a pair that is not colliding when
\* examined changes the two velocities by opposite vectors, a colliding pair changes no
\* velocity, nothing else changes a velocity, and the sum of the velocities is the same
\* after the call as before it.
C3_Step ==
    IsCall("gravitate_glue") =>
        \A tr \in {gg_trace(circles, last'.arg[1])} :
        \A ops \in {gg_schedule(1, Len(circles))} :
            /\ \A m \in 1..Len(ops) :
                 LET i == ops[m][2]
                     j == ops[m][3]
                 IN  \A A \in {tr[m]} : \A B \in {tr[m + 1]} :
                     IF ops[m][1] = "pair" /\ ~Colliding(A, i, j)
                     THEN /\ B[i].velocity[1] - A[i].velocity[1] = -(B[j].velocity[1] - A[j].velocity[1])
                          /\ B[i].velocity[2] - A[i].velocity[2] = -(B[j].velocity[2] - A[j].velocity[2])
                          /\ \A k \in 1..Len(circles) \ {i, j} : B[k].velocity = A[k].velocity
                     ELSE \A k \in 1..Len(circles) : B[k].velocity = A[k].velocity
            /\ fault' = "none"
            /\ SumV(circles', 1) = SumV(circles, 1)
            /\ SumV(circles', 2) = SumV(circles, 2)

C4_Step ==
    IsCall("unglue") =>
        /\ Len(circles') = Len(circles)
        /\ \A k \in 1..Len(circles) :
              /\ ~circles'[k].glued
              /\ circles[k].glued => circles'[k].velocity = <<0, 0>>
              /\ ~circles[k].glued => circles'[k].velocity = circles[k].velocity
              /\ circles'[k].position = circles[k].position
              /\ circles'[k].radius = circles[k].radius
        /\ unglue(circles') = circles'
        /\ (\A k \in 1..Len(circles) : ~circles[k].glued) => circles' = circles
        /\ fault' = "none"

C6_Total == fault = "none"

\* the other circle of the last pair (in i < j order) that involves circle k of n
LastPartner(k, n) == IF k < n THEN n ELSE n - 1

PairwiseDistinct(cs) ==
    \A i \in 1..Len(cs) : \A j \in (i + 1)..Len(cs) : cs[i].position # cs[j].position

\* C9 (last pair wins): after break_circles on two or more circles at pairwise distinct
\* positions every circle is unglued, its velocity is the vector of magnitude
\* break_constant / distance^2 pointing away from the other circle of the last pair that
\* involves it, and it has moved by time_skip times that velocity.
C9_LastPairAway ==
    (last.op = "break_circles" /\ Len(last.pre) >= 2 /\ PairwiseDistinct(last.pre)) =>
        \A k \in 1..Len(circles) :
            LET o == LastPartner(k, Len(circles))
                dx == last.pre[k].position[1] - last.pre[o].position[1]
                dy == last.pre[k].position[2] - last.pre[o].position[2]
                distance == hypot(dx, dy)
                magnitude == Div(Div(last.arg[1], distance), distance)
            IN  /\ ~circles[k].glued
                /\ circles[k].velocity = <<Div(magnitude * dx, distance), Div(magnitude * dy, distance)>>
                /\ circles[k].position =
                      <<last.pre[k].position[1] + last.arg[2] * circles[k].velocity[1],
                        last.pre[k].position[2] + last.arg[2] * circles[k].velocity[2]>>

(***************************************************************************)
(* Properties of distribute_circles.                                       *)
(***************************************************************************)
\* C5 (non-overlap of generated grid circles): the circles distribute_circles returns,
\* called with 0 < radius_min <= radius_max, are pairwise at a centre distance of at
\* least the sum of their radii, and there are min(number, number of grid cells) of them.
C5_NonOverlap ==
    last.op = "distribute_circles" =>
        LET number == last.arg[1]
            radius_max == last.arg[3]
            cells == ((last.arg[4] \div radius_max) \div 2) * ((last.arg[5] \div radius_max) \div 2)
        IN  /\ \A i \in 1..Len(circles) : \A j \in 1..Len(circles) :
                  i # j => ~Colliding(circles, i, j)
            /\ Len(circles) = Min(number, cells)

\* two circles were returned, in the boxes of two columns, and they touch exactly
C5_Witness ==
    /\ last.op = "distribute_circles"
    /\ Len(circles) = 2
    /\ circles[1].position[1] # circles[2].position[1]
    /\ hypot(circles[1].position[1] - circles[2].position[1],
             circles[1].position[2] - circles[2].position[2])
          = circles[1].radius + circles[2].radius

\* C10 (grid cells lie in the bounding rectangle): every centre (x, y) of a circle
\* distribute_circles returns has 0 <= x <= x_bound and 0 <= y <= y_bound.
C10_InsideBounds ==
    last.op = "distribute_circles" =>
        \A k \in 1..Len(circles) :
            /\ 0 <= circles[k].position[1] /\ circles[k].position[1] <= last.arg[4]
            /\ 0 <= circles[k].position[2] /\ circles[k].position[2] <= last.arg[5]

(***************************************************************************)
(* Properties of the loop of main.                                         *)
(***************************************************************************)
\* C7 (insertion cadence): counting the iterations of the loop from the first, any two
\* consecutive calls of place_boundary_circle are exactly 100 iterations apart, and each
\* call appends exactly one circle to the list.
C7_Cadence ==
    /\ \A k \in 1..(Len(inserted) - 1) : inserted[k + 1] - inserted[k] = 100
    /\ last.op = "tick" => Len(circles) = 6 + Len(inserted)

\* C8 (toggle transition): the index gravity changes only when a K_SPACE event is
\* handled, by one modulo len(gravities) for each, and stays in 0..len(gravities)-1; the
\* constant an iteration passes to the engine is 100 after an even number of toggles and
\* -1 after an odd number; after an iteration that handled a toggle no circle is glued.
C8_Step ==
    /\ gravity' \in 0..(Len(gravities) - 1)
    /\ toggles' >= toggles
    /\ gravity' = (gravity + (toggles' - toggles)) % Len(gravities)
    /\ ticks' = ticks + 1 => last'.arg[1] = (IF toggles % 2 = 0 THEN 100 ELSE -1)
    /\ toggles' > toggles => \A k \in 1..Len(circles') : ~circles'[k].glued

C8_Toggle == [][C8_Step]_vars

\* the second toggle: an iteration passed -1 to the engine, which left a circle glued,
\* and then handled a K_SPACE event
C8_Witness ==
    /\ last.op = "tick"
    /\ last.arg = <<-1, 1>>
    /\ toggles = 2
    /\ gravity = 0
    /\ \E k \in 1..Len(last.pre) : last.pre[k].glued
    /\ \A k \in 1..Len(circles) : ~circles[k].glued

====
